---- MODULE Spec2Model ----
(***************************************************************************)
(* Model of justify.py: justify_text and its three algorithms (greedy,     *)
(* bruteforce, dynamic), the line renderer words_to_line and the cost      *)
(* function get_badness.                                                   *)
(*                                                                         *)
(* A Python str is a sequence of one-character strings; a Python list is a *)
(* sequence.  Python indices are 0-based and are kept as in the source:    *)
(* element i of a list ws is ws[i + 1] here.                               *)
(***************************************************************************)
EXTENDS Integers, Sequences, FiniteSets, TLC

VARIABLES
    words,                    \* the caller's list, argument of justify_text
    line_length,              \* argument of justify_text / words_to_line
    algorithm,                \* argument of justify_text
    pc,                       \* position in the code
    result,                   \* local list of lines built so far
    returned,                 \* what the call handed back: [set, lines]
    err,                      \* the exception raised: [msg, word, line_length]
    words_tmp,                \* local list object: [items, shared, base]
    current_line_min_length,  \* greedy / dp running length; words_to_line argument
    badness,                  \* greedy: accumulated badness; render: get_badness value
    i,                        \* loop index (greedy: position in words; bruteforce: bit)
    subset,                   \* bruteforce: loop variable of the search
    best_subset,              \* bruteforce
    best_badness,             \* bruteforce: <<>> is None, <<b>> is the int b
    min_badness,              \* dp table, indices 0..n
    best_end,                 \* dp table, indices 0..n-1
    begin,                    \* dp / bruteforce: first word of the current line
    end,                      \* dp: loop variable of the inner scan
    line_out                  \* what a direct words_to_line call handed back

vars == <<words, line_length, algorithm, pc, result, returned, err, words_tmp,
          current_line_min_length, badness, i, subset, best_subset,
          best_badness, min_badness, best_end, begin, end, line_out>>

----------------------------------------------------------------------------
(* Bounds of the model. *)
MaxWords == 3
MaxWordLen == 2
MaxWidth == 6

(* Characters words are made of (tokens of str.split() hold no whitespace). *)
Chars == {"a", "b"}
SP == " "
NL == "\n"

Word(c, k) == [j \in 1..k |-> c]
WordSet == {Word(c, k) : c \in Chars, k \in 1..MaxWordLen}
WordLists == UNION {[1..n -> WordSet] : n \in 0..MaxWords}
Widths == (0 - 1)..MaxWidth
Algorithms == {"dynamic", "greedy", "bruteforce", "other"}

----------------------------------------------------------------------------
(* Python primitives. *)

\* " " * k  (the empty string when k <= 0)
Spaces(k) == [j \in 1..k |-> SP]

\* sum(len(w) for w in ws)
RECURSIVE SumLen(_)
SumLen(ws) == IF ws = <<>> THEN 0 ELSE Len(Head(ws)) + SumLen(Tail(ws))

\* sum(len(w) for w in words_tmp) + len(words_tmp) - 1
min_length_of(ws) == SumLen(ws) + Len(ws) - 1

\* sep.join(ws)
RECURSIVE Join(_, _)
Join(sep, ws) ==
    IF ws = <<>> THEN <<>>
    ELSE IF Len(ws) = 1 THEN ws[1]
    ELSE ws[1] \o sep \o Join(sep, Tail(ws))

RECURSIVE Pow2(_)
Pow2(k) == IF k <= 0 THEN 1 ELSE 2 * Pow2(k - 1)

\* subset & (1 << k) is non-zero
BitSet(s, k) == (s \div Pow2(k)) % 2 = 1

\* a | b on non-negative ints
RECURSIVE BitOr(_, _)
BitOr(a, b) ==
    IF a = 0 THEN b
    ELSE IF b = 0 THEN a
    ELSE (IF a % 2 = 1 \/ b % 2 = 1 THEN 1 ELSE 0) + 2 * BitOr(a \div 2, b \div 2)

\* variant: the slice stops one element early (ws[b : e-1])
SliceShort(ws, b, e) ==
    [items |-> SubSeq(ws, b + 1, e - 1), shared |-> FALSE, base |-> b]
\* variant: the slice is a view sharing its storage with ws
SliceAliased(ws, b, e) ==
    [items |-> SubSeq(ws, b + 1, e), shared |-> TRUE, base |-> b]

\* ws[b : e] : a new list object holding the elements b..e-1 of ws
Slice(ws, b, e) ==
    [items |-> SubSeq(ws, b + 1, e), shared |-> FALSE, base |-> b]

\* a list object built from a list display: [] or [word]
NewList(items) == [items |-> items, shared |-> FALSE, base |-> 0]

\* The caller's list after the elements of the list object tmp were assigned
\* the values in items: untouched unless tmp shares its storage.
AfterStore(ws, tmp, items) ==
    IF tmp.shared
    THEN [j \in 1..Len(ws) |->
            IF j > tmp.base /\ j <= tmp.base + Len(items)
            THEN items[j - tmp.base] ELSE ws[j]]
    ELSE ws

----------------------------------------------------------------------------
(* get_badness *)

NoneValue == "None"

\* variant: the remainder of the division is dropped
get_badness_nomod(words_in_line_count, ll, cmin) ==
    IF words_in_line_count = 0 THEN NoneValue
    ELSE LET additional_spaces == ll - cmin IN
         IF words_in_line_count = 1
         THEN additional_spaces * additional_spaces
         ELSE LET min_additional_spaces_per_w ==
                      additional_spaces \div (words_in_line_count - 1)
              IN min_additional_spaces_per_w * min_additional_spaces_per_w
                 * (words_in_line_count - 1)

\* get_badness(0, ...) is None; otherwise the sum of the squares of the
\* additional spaces of each gap
get_badness(words_in_line_count, ll, cmin) ==
    IF words_in_line_count = 0 THEN NoneValue
    ELSE LET additional_spaces == ll - cmin IN
         IF words_in_line_count = 1
         THEN additional_spaces * additional_spaces
         ELSE LET min_additional_spaces_per_w ==
                      additional_spaces \div (words_in_line_count - 1)
                  mod == additional_spaces % (words_in_line_count - 1)
              IN (min_additional_spaces_per_w + 1) * (min_additional_spaces_per_w + 1) * mod
                 + min_additional_spaces_per_w * min_additional_spaces_per_w
                   * (words_in_line_count - 1 - mod)

----------------------------------------------------------------------------
(* words_to_line *)

\* the loop "for i in range(1, len(words))": k is the 0-based index
RECURSIVE PrependSpaces(_, _, _, _)
PrependSpaces(ws, k, per_w, mod) ==
    IF k >= Len(ws) THEN ws
    ELSE LET spaces == IF mod > 0 THEN per_w + 1 ELSE per_w
             mod2 == IF mod > 0 THEN mod - 1 ELSE mod
         IN PrependSpaces([ws EXCEPT ![k + 1] = Spaces(spaces) \o ws[k + 1]],
                          k + 1, per_w, mod2)

MsgEmpty == "words_to_line called with empty list of words"
MsgShort == "line_length is too short for words"

\* variant: a single word is returned without its trailing spaces
words_to_line_nopad(ws, ll, cmin) ==
    IF Len(ws) = 0
    THEN [raised |-> TRUE, msg |-> MsgEmpty, line |-> <<>>, words |-> ws]
    ELSE IF Len(ws) = 1
    THEN [raised |-> FALSE, msg |-> "", line |-> ws[1], words |-> ws]
    ELSE LET additional_spaces == ll - cmin IN
         IF additional_spaces < 0
         THEN [raised |-> TRUE, msg |-> MsgShort, line |-> <<>>, words |-> ws]
         ELSE LET min_additional_spaces_per_w == additional_spaces \div (Len(ws) - 1)
                  mod == additional_spaces % (Len(ws) - 1)
                  out == PrependSpaces(ws, 1, min_additional_spaces_per_w, mod)
              IN [raised |-> FALSE, msg |-> "", line |-> Join(<<SP>>, out),
                  words |-> out]

\* [raised, msg, line, words]: whether the call raised and with what message, the
\* string it returned, and its argument list after the call
words_to_line(ws, ll, cmin) ==
    IF Len(ws) = 0
    THEN [raised |-> TRUE, msg |-> MsgEmpty, line |-> <<>>, words |-> ws]
    ELSE IF Len(ws) = 1
    THEN [raised |-> FALSE, msg |-> "", line |-> ws[1] \o Spaces(ll - cmin),
          words |-> ws]
    ELSE LET additional_spaces == ll - cmin IN
         IF additional_spaces < 0
         THEN [raised |-> TRUE, msg |-> MsgShort, line |-> <<>>, words |-> ws]
         ELSE LET min_additional_spaces_per_w == additional_spaces \div (Len(ws) - 1)
                  mod == additional_spaces % (Len(ws) - 1)
                  out == PrependSpaces(ws, 1, min_additional_spaces_per_w, mod)
              IN [raised |-> FALSE, msg |-> "", line |-> Join(<<SP>>, out),
                  words |-> out]

----------------------------------------------------------------------------
(* Exceptions: a BaseException carries a message; the word and the width   *)
(* the message is formatted with are kept as fields.                       *)

MsgAlgorithm == "invalid algorithm parameter"
MsgTooLong == "word is too long for line length"
MsgBrute == "justify_text_bruteforce failed to find anything"
MsgTypeError == "TypeError: unsupported operand type(s) for +=: 'int' and 'NoneType'"

NoErr == [msg |-> "", word |-> <<>>, line_length |-> 0]
Exc(m, w, ll) == [msg |-> m, word |-> w, line_length |-> ll]
NotReturned == [set |-> FALSE, lines |-> <<>>]
Return(lines) == [set |-> TRUE, lines |-> lines]

----------------------------------------------------------------------------
(* justify_text: lines 49-62 *)

\* variant: the loop raises on the last word that is too long
RECURSIVE LastTooLong(_, _, _)
LastTooLong(ws, ll, k) ==
    IF k >= Len(ws) THEN Len(ws)
    ELSE LET rest == LastTooLong(ws, ll, k + 1) IN
         IF rest < Len(ws) THEN rest
         ELSE IF Len(ws[k + 1]) > ll THEN k ELSE Len(ws)

\* variant: the loop compares with >= instead of >
RECURSIVE FirstTooLongInclusive(_, _, _)
FirstTooLongInclusive(ws, ll, k) ==
    IF k >= Len(ws) THEN Len(ws)
    ELSE IF Len(ws[k + 1]) >= ll THEN k
    ELSE FirstTooLongInclusive(ws, ll, k + 1)

\* the loop "for word in words: if len(word) > line_length": 0-based index of
\* the word the loop raises on, or len(words) when it raises on none
RECURSIVE FirstTooLong(_, _, _)
FirstTooLong(ws, ll, k) ==
    IF k >= Len(ws) THEN Len(ws)
    ELSE IF Len(ws[k + 1]) > ll THEN k
    ELSE FirstTooLong(ws, ll, k + 1)

locals == <<result, words_tmp, current_line_min_length, badness, i, subset,
            best_subset, best_badness, min_badness, best_end, begin, end>>
args == <<words, line_length, algorithm>>

Raise(e) ==
    /\ pc' = "error"
    /\ err' = e
    /\ returned' = NotReturned

justify_text ==
    /\ pc = "start"
    /\ line_out' = line_out
    /\ UNCHANGED args
    /\ IF algorithm \notin {"dynamic", "greedy", "bruteforce"}
       THEN Raise(Exc(MsgAlgorithm, <<>>, 0)) /\ UNCHANGED locals
       ELSE IF Len(words) = 0
       THEN /\ pc' = "done"
            /\ returned' = Return(<<>>)
            /\ UNCHANGED <<err, locals>>
       ELSE LET k == FirstTooLong(words, line_length, 0)
                n == Len(words)
            IN
            IF k < n
            THEN Raise(Exc(MsgTooLong, words[k + 1], line_length)) /\ UNCHANGED locals
            ELSE /\ UNCHANGED <<err, returned>>
                 /\ result' = <<>>
                 /\ CASE algorithm = "greedy" ->
                           /\ pc' = "greedy"
                           /\ words_tmp' = NewList(<<>>)
                           /\ current_line_min_length' = 0
                           /\ badness' = 0
                           /\ i' = 0
                           /\ UNCHANGED <<subset, best_subset, best_badness,
                                          min_badness, best_end, begin, end>>
                      [] algorithm = "bruteforce" ->
                           /\ pc' = "brute_search"
                           /\ best_subset' = 0
                           /\ best_badness' = <<>>
                           /\ subset' = 0
                           /\ UNCHANGED <<words_tmp, current_line_min_length, badness,
                                          i, min_badness, best_end, begin, end>>
                      [] algorithm = "dynamic" ->
                           /\ pc' = "dp_scan"
                           /\ min_badness' = [j \in 0..n |-> IF j = n THEN 0 ELSE 0 - 1]
                           /\ best_end' = [j \in 0..(n - 1) |-> n - 1]
                           /\ begin' = n - 1
                           /\ end' = n - 1
                           /\ current_line_min_length' = 0
                           /\ UNCHANGED <<words_tmp, badness, i, subset, best_subset,
                                          best_badness>>

\* One "result.append(words_to_line(words_tmp, line_length, min_length))" on the
\* list object tmp: its effect on result and on the caller's list, and the raise.
\* toPc is where control goes on success.
AppendLine(tmp, cmin, toPc) ==
    LET r == words_to_line(tmp.items, line_length, cmin) IN
    /\ words' = AfterStore(words, tmp, r.words)
    /\ UNCHANGED <<line_length, algorithm, line_out>>
    /\ IF r.raised
       THEN /\ Raise(Exc(r.msg, <<>>, line_length))
            /\ result' = result
       ELSE /\ result' = Append(result, r.line)
            /\ pc' = toPc
            /\ UNCHANGED <<err, returned>>

\* the list object tmp after words_to_line ran on it
Rendered(tmp, cmin) ==
    [tmp EXCEPT !.items = words_to_line(tmp.items, line_length, cmin).words]

ReturnResult ==
    /\ pc' = "done"
    /\ returned' = Return(result)
    /\ UNCHANGED <<args, err, locals, line_out>>

----------------------------------------------------------------------------
(* justify_text_greedy: lines 65-88 *)

\* one iteration of "for word in words" (lines 71-82)
greedy_step ==
    /\ pc = "greedy"
    /\ i < Len(words)
    /\ LET word == words[i + 1]
           new_line_min_length ==
               current_line_min_length + Len(word)
               + (IF Len(words_tmp.items) > 0 THEN 1 ELSE 0)
       IN
       /\ i' = i + 1
       /\ UNCHANGED <<subset, best_subset, best_badness, min_badness, best_end,
                      begin, end>>
       /\ IF new_line_min_length > line_length
          THEN IF Len(words_tmp.items) = 0
               THEN \* badness += None
                    /\ Raise(Exc(MsgTypeError, <<>>, line_length))
                    /\ UNCHANGED <<args, line_out, result, words_tmp,
                                   current_line_min_length, badness>>
               ELSE /\ badness' = badness + get_badness(Len(words_tmp.items), line_length,
                                                        current_line_min_length)
                    /\ AppendLine(words_tmp, current_line_min_length, "greedy")
                    /\ current_line_min_length' = Len(word)
                    /\ words_tmp' = NewList(<<word>>)
          ELSE /\ words_tmp' = [words_tmp EXCEPT !.items = Append(@, word)]
               /\ current_line_min_length' = new_line_min_length
               /\ UNCHANGED <<args, line_out, pc, err, returned, result, badness>>

\* the flush after the loop (lines 83-85)
greedy_flush ==
    /\ pc = "greedy"
    /\ i >= Len(words)
    /\ UNCHANGED <<i, subset, best_subset, best_badness, min_badness, best_end,
                   begin, end, current_line_min_length>>
    /\ IF Len(words_tmp.items) > 0
       THEN /\ badness' = badness + get_badness(Len(words_tmp.items), line_length,
                                                current_line_min_length)
            /\ AppendLine(words_tmp, current_line_min_length, "greedy_return")
            /\ words_tmp' = Rendered(words_tmp, current_line_min_length)
       ELSE /\ pc' = "greedy_return"
            /\ UNCHANGED <<args, line_out, err, returned, result, badness, words_tmp>>

greedy_return ==
    /\ pc = "greedy_return"
    /\ ReturnResult

----------------------------------------------------------------------------
(* justify_text_bruteforce: lines 91-129 *)

\* the loop "for i in range(len(words))" of the search (lines 99-111), from bit k
\* on: <<>> is None, <<b>> the badness b
RECURSIVE SubsetLoop(_, _, _, _, _, _)
SubsetLoop(ws, ll, s, k, b, bad) ==
    IF k >= Len(ws) THEN <<bad>>
    ELSE IF ~BitSet(s, k) THEN SubsetLoop(ws, ll, s, k + 1, b, bad)
    ELSE LET tmp == Slice(ws, b, k + 1).items
             min_length == min_length_of(tmp)
         IN IF min_length > ll \/ Len(tmp) = 0 THEN <<>>
            ELSE SubsetLoop(ws, ll, s, k + 1, k + 1,
                            bad + get_badness(Len(tmp), ll, min_length))

subset_badness(ws, ll, s) == SubsetLoop(ws, ll, s, 0, 0, 0)

\* one iteration of "for subset in range(0, 2**(len(words) - 1))" (lines 97-114)
bruteforce_search ==
    /\ pc = "brute_search"
    /\ subset < Pow2(Len(words) - 1)
    /\ LET s == BitOr(subset, Pow2(Len(words) - 1))
           b == subset_badness(words, line_length, s)
       IN IF b # <<>> /\ (best_badness = <<>> \/ b[1] < best_badness[1])
          THEN best_subset' = s /\ best_badness' = b
          ELSE UNCHANGED <<best_subset, best_badness>>
    /\ subset' = subset + 1
    /\ UNCHANGED <<args, pc, err, returned, line_out, result, words_tmp,
                   current_line_min_length, badness, i, min_badness, best_end,
                   begin, end>>

\* the sanity check after the search (lines 115-118)
bruteforce_check ==
    /\ pc = "brute_search"
    /\ subset >= Pow2(Len(words) - 1)
    /\ UNCHANGED <<args, line_out, words_tmp, current_line_min_length, badness,
                   subset, best_subset, best_badness, min_badness, best_end, end>>
    /\ IF best_badness = <<>>
       THEN Raise(Exc(MsgBrute, <<>>, line_length)) /\ UNCHANGED <<result, begin, i>>
       ELSE /\ pc' = "brute_render"
            /\ result' = <<>>
            /\ begin' = 0
            /\ i' = 0
            /\ UNCHANGED <<err, returned>>

\* one iteration of the second "for i in range(len(words))" (lines 119-126)
bruteforce_render ==
    /\ pc = "brute_render"
    /\ i < Len(words)
    /\ i' = i + 1
    /\ UNCHANGED <<current_line_min_length, badness, subset, best_subset,
                   best_badness, min_badness, best_end, end>>
    /\ IF ~BitSet(best_subset, i)
       THEN UNCHANGED <<args, line_out, pc, err, returned, result, words_tmp, begin>>
       ELSE LET tmp == Slice(words, begin, i + 1)
                min_length == min_length_of(tmp.items)
            IN /\ AppendLine(tmp, min_length, "brute_render")
               /\ words_tmp' = Rendered(tmp, min_length)
               /\ begin' = i + 1

bruteforce_return ==
    /\ pc = "brute_render"
    /\ i >= Len(words)
    /\ ReturnResult

----------------------------------------------------------------------------
(* justify_text_dp: lines 132-158 *)

\* variant: the comparison is inverted
ImprovesInverted(bad, best) == best = 0 - 1 \/ bad > best

\* "if min_badness[begin] == -1 or badness < min_badness[begin]" (line 145)
Improves(bad, best) == best = 0 - 1 \/ bad < best

\* variant: the scan breaks on a line that fills the width exactly
ScanBreaksEarly(cmin, ll) == cmin >= ll

\* "if current_line_min_length > line_length: break" (line 142)
ScanBreaks(cmin, ll) == cmin > ll

\* one iteration of "for end in range(begin, len(words))" (lines 138-147), or
\* the exit of that loop
dp_scan ==
    /\ pc = "dp_scan"
    /\ UNCHANGED <<args, line_out, err, returned, result, words_tmp, badness, i,
                   subset, best_subset, best_badness, begin>>
    /\ IF end >= Len(words)
       THEN /\ pc' = "dp_next"
            /\ UNCHANGED <<current_line_min_length, min_badness, best_end, end>>
       ELSE LET cmin == current_line_min_length + Len(words[end + 1])
                        + (IF end - begin > 0 THEN 1 ELSE 0)
            IN
            /\ current_line_min_length' = cmin
            /\ IF ScanBreaks(cmin, line_length)
               THEN /\ pc' = "dp_next"
                    /\ UNCHANGED <<min_badness, best_end, end>>
               ELSE LET bad == get_badness(end - begin + 1, line_length, cmin)
                               + min_badness[end + 1]
                    IN
                    /\ pc' = "dp_scan"
                    /\ end' = end + 1
                    /\ IF Improves(bad, min_badness[begin])
                       THEN /\ min_badness' = [min_badness EXCEPT ![begin] = bad]
                            /\ best_end' = [best_end EXCEPT ![begin] = end]
                       ELSE UNCHANGED <<min_badness, best_end>>

\* variant: begin is not decremented
dp_next_stuck ==
    /\ pc = "dp_next"
    /\ UNCHANGED <<args, line_out, err, returned, words_tmp, badness, i, subset,
                   best_subset, best_badness, min_badness, best_end>>
    /\ IF begin > 0
       THEN /\ pc' = "dp_scan"
            /\ begin' = begin
            /\ end' = begin
            /\ current_line_min_length' = 0
            /\ result' = result
       ELSE /\ pc' = "dp_emit"
            /\ begin' = 0
            /\ result' = <<>>
            /\ UNCHANGED <<end, current_line_min_length>>

\* the next iteration of "for begin in range(len(words)-1, -1, -1)" (lines
\* 136-137), or the exit of that loop (lines 148-149)
dp_next ==
    /\ pc = "dp_next"
    /\ UNCHANGED <<args, line_out, err, returned, words_tmp, badness, i, subset,
                   best_subset, best_badness, min_badness, best_end>>
    /\ IF begin > 0
       THEN /\ pc' = "dp_scan"
            /\ begin' = begin - 1
            /\ end' = begin - 1
            /\ current_line_min_length' = 0
            /\ result' = result
       ELSE /\ pc' = "dp_emit"
            /\ begin' = 0
            /\ result' = <<>>
            /\ UNCHANGED <<end, current_line_min_length>>

\* one iteration of "while begin < len(words)" (lines 150-155)
dp_emit ==
    /\ pc = "dp_emit"
    /\ begin < Len(words)
    /\ LET e == best_end[begin]
           tmp == Slice(words, begin, e + 1)
           min_length == min_length_of(tmp.items)
       IN /\ AppendLine(tmp, min_length, "dp_emit")
          /\ words_tmp' = Rendered(tmp, min_length)
          /\ end' = e
          /\ begin' = e + 1
    /\ UNCHANGED <<current_line_min_length, badness, i, subset, best_subset,
                   best_badness, min_badness, best_end>>

dp_return ==
    /\ pc = "dp_emit"
    /\ begin >= Len(words)
    /\ ReturnResult

----------------------------------------------------------------------------
(* The call of justify_text. *)

NoLine == [raised |-> FALSE, msg |-> "", line |-> <<>>, words |-> <<>>]

Init ==
    /\ words \in WordLists
    /\ line_length \in Widths
    /\ algorithm \in Algorithms
    /\ pc = "start"
    /\ result = <<>>
    /\ returned = NotReturned
    /\ err = NoErr
    /\ words_tmp = NewList(<<>>)
    /\ current_line_min_length = 0
    /\ badness = 0
    /\ i = 0
    /\ subset = 0
    /\ best_subset = 0
    /\ best_badness = <<>>
    /\ min_badness = <<>>
    /\ best_end = <<>>
    /\ begin = 0
    /\ end = 0
    /\ line_out = NoLine

Next ==
    \/ justify_text
    \/ greedy_step
    \/ greedy_flush
    \/ greedy_return
    \/ bruteforce_search
    \/ bruteforce_check
    \/ bruteforce_render
    \/ bruteforce_return
    \/ dp_scan
    \/ dp_next
    \/ dp_emit
    \/ dp_return

Spec == Init /\ [][Next]_vars

\* The call runs to its end: no step of the code waits for anything.
FairSpec == Spec /\ WF_vars(Next)

----------------------------------------------------------------------------
(* A direct call of words_to_line and get_badness on a group of words, with  *)
(* whatever minimum length the caller passes.                                *)

MinLengths == (0 - 1)..(MaxWords * (MaxWordLen + 1))

InitRender ==
    /\ words = <<>>
    /\ words_tmp \in {NewList(g) : g \in WordLists}
    /\ line_length \in Widths
    /\ current_line_min_length \in MinLengths
    /\ algorithm = "dynamic"
    /\ pc = "render_start"
    /\ result = <<>>
    /\ returned = NotReturned
    /\ err = NoErr
    /\ badness = 0
    /\ i = 0
    /\ subset = 0
    /\ best_subset = 0
    /\ best_badness = <<>>
    /\ min_badness = <<>>
    /\ best_end = <<>>
    /\ begin = 0
    /\ end = 0
    /\ line_out = NoLine

render_call ==
    /\ pc = "render_start"
    /\ LET r == words_to_line(words_tmp.items, line_length, current_line_min_length)
       IN /\ line_out' = r
          /\ words_tmp' = [words_tmp EXCEPT !.items = r.words]
          /\ pc' = IF r.raised THEN "render_error" ELSE "render_done"
    /\ badness' = get_badness(Len(words_tmp.items), line_length,
                              current_line_min_length)
    /\ UNCHANGED <<args, result, returned, err, current_line_min_length, i, subset,
                   best_subset, best_badness, min_badness, best_end, begin, end>>

NextRender == render_call

SpecRender == InitRender /\ [][NextRender]_vars

----------------------------------------------------------------------------
(* Vocabulary of the properties. *)

Recognised == algorithm \in {"dynamic", "greedy", "bruteforce"}

TooLong(k) == Len(words[k]) > line_length

\* a non-empty list of non-empty words, none longer than the width
ValidInput ==
    /\ Recognised
    /\ Len(words) >= 1
    /\ \A k \in 1..Len(words) : Len(words[k]) >= 1 /\ ~TooLong(k)

Called == pc # "start"

\* str.split on the separator characters seps: the maximal runs of other characters
RECURSIVE SplitLoop(_, _, _, _, _)
SplitLoop(str, seps, k, cur, acc) ==
    IF k > Len(str)
    THEN IF cur = <<>> THEN acc ELSE Append(acc, cur)
    ELSE IF str[k] \in seps
    THEN SplitLoop(str, seps, k + 1, <<>>, IF cur = <<>> THEN acc ELSE Append(acc, cur))
    ELSE SplitLoop(str, seps, k + 1, Append(cur, str[k]), acc)

Split(str, seps) == SplitLoop(str, seps, 1, <<>>, <<>>)

\* the lengths of the maximal runs of spaces of str, left to right
RECURSIVE RunLoop(_, _, _, _)
RunLoop(str, k, run, acc) ==
    IF k > Len(str)
    THEN IF run = 0 THEN acc ELSE Append(acc, run)
    ELSE IF str[k] = SP
    THEN RunLoop(str, k + 1, run + 1, acc)
    ELSE RunLoop(str, k + 1, 0, IF run = 0 THEN acc ELSE Append(acc, run))

SpaceRuns(str) == RunLoop(str, 1, 0, <<>>)

Letters(str) == Cardinality({k \in 1..Len(str) : str[k] # SP})

\* sum of the lengths of the words of a group, leading spaces not counted
RECURSIVE SumLetters(_)
SumLetters(ws) == IF ws = <<>> THEN 0 ELSE Letters(Head(ws)) + SumLetters(Tail(ws))

RECURSIVE SumSquaresLess1(_)
SumSquaresLess1(runs) ==
    IF runs = <<>> THEN 0
    ELSE (Head(runs) - 1) * (Head(runs) - 1) + SumSquaresLess1(Tail(runs))

\* the cost of a rendered line of count words, read off the line itself
LineCost(str, count) ==
    IF count = 1
    THEN LET t == IF str # <<>> /\ str[Len(str)] = SP
                  THEN SpaceRuns(str)[Len(SpaceRuns(str))] ELSE 0
         IN t * t
    ELSE SumSquaresLess1(SpaceRuns(str))

\* minLength of the line words[b..e] (0-based, inclusive)
MinLength(b, e) == min_length_of(SubSeq(words, b + 1, e + 1))

\* A partition of the n words is the set of its inner boundaries, a subset of
\* 1..n-1; its lines are the stretches between neighbouring boundaries.
Boundaries(B) == B \cup {0, Len(words)}
LinesOf(B) ==
    {<<lo, hi>> \in Boundaries(B) \X Boundaries(B) :
        lo < hi /\ \A m \in Boundaries(B) : ~(lo < m /\ m < hi)}
Fits(B) == \A g \in LinesOf(B) : MinLength(g[1], g[2] - 1) <= line_length

RECURSIVE SumCost(_)
SumCost(G) ==
    IF G = {} THEN 0
    ELSE LET g == CHOOSE x \in G : TRUE
         IN get_badness(g[2] - g[1], line_length, MinLength(g[1], g[2] - 1))
            + SumCost(G \ {g})

TotalBadness(B) == SumCost(LinesOf(B))

FittingPartitions == {B \in SUBSET (1..(Len(words) - 1)) : Fits(B)}

IsOptimal(v) ==
    /\ \E B \in FittingPartitions : TotalBadness(B) = v
    /\ \A B \in FittingPartitions : TotalBadness(B) >= v

\* the partition the dp reconstructs from best_end, from line start b on
RECURSIVE DpBoundaries(_, _)
DpBoundaries(b, fuel) ==
    IF b >= Len(words) \/ fuel = 0 THEN {}
    ELSE {best_end[b] + 1} \cup DpBoundaries(best_end[b] + 1, fuel - 1)

DpPartition == DpBoundaries(0, Len(words)) \ {Len(words)}

\* the partition the brute force renders from best_subset
BrutePartition == {k + 1 : k \in {m \in 0..(Len(words) - 2) : BitSet(best_subset, m)}}

----------------------------------------------------------------------------
(* C1: for a valid input and each of the three algorithms, every line of    *)
(* the result, while it is built and when it is returned, is exactly        *)
(* line_length long; single-word lines and the last line are no exception.  *)
WidthInvariant ==
    ValidInput =>
        /\ \A k \in 1..Len(result) : Len(result[k]) = line_length
        /\ \A k \in 1..Len(returned.lines) : Len(returned.lines[k]) = line_length

\* a returned text of several lines, one of them a single padded word, another
\* one of several words
WidthWitness ==
    /\ pc = "done"
    /\ ValidInput
    /\ Len(returned.lines) >= 2
    /\ \E k \in 1..Len(returned.lines) :
          /\ returned.lines[k][line_length] = SP
          /\ Len(SpaceRuns(returned.lines[k])) = 1
    /\ \E k \in 1..Len(returned.lines) :
          /\ returned.lines[k][line_length] # SP
          /\ SpaceRuns(returned.lines[k]) # <<>>

(* C2 as stated: the returned lines concatenated with nothing between them, *)
(* split on runs of spaces, give back the words.                            *)
RoundTripConcatenated ==
    (pc = "done" /\ ValidInput) =>
        Split(Join(<<>>, returned.lines), {SP}) = words

(* C2, amended: the returned lines joined with a newline between them (as   *)
(* main prints them), split on runs of whitespace, give back the words in   *)
(* order.                                                                   *)
RoundTripJoined ==
    (pc = "done" /\ ValidInput) =>
        Split(Join(<<NL>>, returned.lines), {SP, NL}) = words

\* a returned text of two lines or more, one of which holds several words
RoundTripWitness ==
    /\ pc = "done"
    /\ ValidInput
    /\ Len(returned.lines) >= 2
    /\ Len(returned.lines) < Len(words)

(* C3: when the dp and the brute force return, the total badness of the     *)
(* partition each has chosen, and the value each reports (min_badness[0],   *)
(* best_badness), is the minimum of the total badness over all partitions   *)
(* of the words into lines that fit.                                        *)
Optimality ==
    (pc = "done" /\ ValidInput) =>
        /\ algorithm = "dynamic" =>
              /\ IsOptimal(min_badness[0])
              /\ DpPartition \in FittingPartitions
              /\ TotalBadness(DpPartition) = min_badness[0]
        /\ algorithm = "bruteforce" =>
              /\ best_badness # <<>>
              /\ IsOptimal(best_badness[1])
              /\ BrutePartition \in FittingPartitions
              /\ TotalBadness(BrutePartition) = best_badness[1]

\* the dp has returned on an input with several fitting partitions of different
\* total badness
OptimalityWitness ==
    /\ pc = "done"
    /\ ValidInput
    /\ algorithm = "dynamic"
    /\ \E B \in FittingPartitions : TotalBadness(B) > min_badness[0]
    /\ Cardinality(FittingPartitions) >= 3

(* C4: when some word is longer than the width, the call raises the         *)
(* too-long error carrying the first such word in input order and the       *)
(* width, and returns nothing.                                              *)
OversizedRejected ==
    (Called /\ Recognised /\ \E k \in 1..Len(words) : TooLong(k)) =>
        LET first == CHOOSE k \in 1..Len(words) :
                         TooLong(k) /\ \A m \in 1..(k - 1) : ~TooLong(m)
        IN /\ pc = "error"
           /\ err = Exc(MsgTooLong, words[first], line_length)
           /\ returned = NotReturned

\* the error was raised on a word that follows words that fit and precedes a
\* different word that is too long as well
OversizedWitness ==
    /\ pc = "error"
    /\ err.msg = MsgTooLong
    /\ line_length >= 1
    /\ \E k \in 2..(Len(words) - 1) :
          /\ ~TooLong(k - 1)
          /\ TooLong(k)
          /\ TooLong(k + 1)
          /\ words[k] # words[k + 1]
          /\ err.word = words[k]

(* C5 as stated: with a width <= 0 the call fails with InvalidWidthError,   *)
(* whatever the words, the empty list included.                             *)
MsgInvalidWidth == "InvalidWidthError"
BadnessMatchesRender ==
    LET count == Len(words_tmp.items) IN
    (/\ pc \in {"render_done", "render_error"}
     /\ count >= 1
     /\ current_line_min_length <= line_length
     /\ current_line_min_length = SumLetters(words_tmp.items) + count - 1) =>
        /\ pc = "render_done"
        /\ count > 1 => Len(SpaceRuns(line_out.line)) = count - 1
        /\ badness = LineCost(line_out.line, count)

\* a rendered line of three words whose two gaps differ in width
BadnessWitness ==
    /\ pc = "render_done"
    /\ Len(words_tmp.items) = 3
    /\ current_line_min_length = SumLetters(words_tmp.items) + 2
    /\ Len(SpaceRuns(line_out.line)) = 2
    /\ SpaceRuns(line_out.line)[1] > SpaceRuns(line_out.line)[2]

(* C7: no step of a call of justify_text changes the caller's list of       *)
(* words, although words_to_line rewrites the elements of the list it is    *)
(* handed.                                                                  *)
CallerWordsUnchanged == [][words' = words]_vars

\* the call has returned and words_to_line has prepended spaces to a word of the
\* list it was handed
CallerWordsWitness ==
    /\ pc = "done"
    /\ algorithm = "dynamic"
    /\ \E k \in 1..Len(words_tmp.items) : words_tmp.items[k][1] = SP

(* C8: words_to_line, called on a non-empty group with a minLength greater  *)
(* than the width, raises and returns no string.                            *)
NegativeExtraRaises ==
    (/\ pc \in {"render_done", "render_error"}
     /\ Len(words_tmp.items) >= 1
     /\ current_line_min_length > line_length) =>
        /\ pc = "render_error"
        /\ line_out.raised

(* C9: in the inner scan of the dp the running minLength is the minLength   *)
(* of words[begin..end] and grows strictly with end; when the scan of a     *)
(* begin is over, at the break or at the end of the words, every end whose  *)
(* line fits lies before the end the scan stopped at, so has been a         *)
(* candidate.                                                               *)
ScanMonotone ==
    /\ (pc = "dp_scan" /\ end > begin) =>
          /\ current_line_min_length = MinLength(begin, end - 1)
          /\ end - begin >= 2 => current_line_min_length > MinLength(begin, end - 2)
          /\ \A e \in begin..(end - 1) : MinLength(begin, e) <= line_length
    /\ pc = "dp_next" =>
          /\ \A e \in begin..(Len(words) - 1) :
                MinLength(begin, e) <= line_length => e < end
          /\ end < Len(words) => current_line_min_length = MinLength(begin, end)

\* the scan of a begin has stopped at a break, after a candidate and before the
\* last word
ScanWitness ==
    /\ pc = "dp_next"
    /\ end > begin
    /\ end < Len(words) - 1
    /\ current_line_min_length > line_length

\* on a valid input: no error; the search ends with a best_badness; the scan of
\* each begin ends with min_badness[begin] set and begin <= best_end[begin];
\* a return hands back at least one line
NoFailure ==
    ValidInput =>
        /\ pc # "error"
        /\ (pc = "brute_search" /\ subset >= Pow2(Len(words) - 1)) => best_badness # <<>>
        /\ pc \in {"dp_next", "dp_emit"} =>
              \A b \in (IF pc = "dp_next" THEN begin ELSE 0)..(Len(words) - 1) :
                  /\ min_badness[b] # 0 - 1
                  /\ best_end[b] >= b
                  /\ best_end[b] < Len(words)
        /\ pc = "done" => Len(returned.lines) >= 1

Returns == pc = "done" /\ Len(returned.lines) >= 1

(* C10: on a valid input no algorithm raises; the brute force leaves its    *)
(* search with a best_badness; the dp leaves the scan of each begin with    *)
(* min_badness[begin] set and best_end[begin] >= begin; and the call ends   *)
(* by returning at least one line.                                          *)
Terminates == []NoFailure /\ (ValidInput ~> Returns)

\* the dp has returned several lines
TerminatesWitness ==
    /\ pc = "done"
    /\ ValidInput
    /\ algorithm = "dynamic"
    /\ Len(returned.lines) >= 2

====
